---------------------------- MODULE Spec2Model ----------------------------
(***************************************************************************)
(* A model of app.py, the fact-checking pipeline: an uploaded PDF is saved *)
(* to a temporary file, its text is loaded, extract_claims asks the        *)
(* text-generation service for a JSON array of claims, verify_claim        *)
(* searches the web and asks the service to classify each claim, and the   *)
(* script then counts the verdicts per status and displays them.           *)
(*                                                                         *)
(* A text is a sequence of one-character strings.  A JSON document is      *)
(* written with a few extra tokens: "[" and "]" delimit an array, an       *)
(* element token stands for one array element, an object token stands for  *)
(* one whole JSON object.  A Python dict is a record whose field keys is    *)
(* the set of keys the dict holds; a key outside keys raises KeyError.     *)
(* An operator that models a try body returns [exc, val]: exc is the       *)
(* message of the exception raised, or NoExc.                              *)
(***************************************************************************)
EXTENDS Naturals, Sequences, FiniteSets

\* ------------------------------------------------------------------ bounds

\* The longest claim list the text-generation service emits.
MaxClaims == 2

\* The longest text and payload the fence-stripping runs draw.
MaxLen == 4

\* max_results of tavily_client.search.
MaxResults == 3

\* ------------------------------------------------------------------- texts

RECURSIVE SeqsUpTo(_, _)
SeqsUpTo(S, n) ==
  IF n = 0 THEN {<<>>}
  ELSE LET shorter == SeqsUpTo(S, n - 1)
       IN  shorter \cup {Append(s, x) : s \in {t \in shorter : Len(t) = n - 1}, x \in S}

Whitespace == {" ", "\n"}

RECURSIVE LStrip(_)
LStrip(s) ==
  IF s # <<>> /\ Head(s) \in Whitespace THEN LStrip(Tail(s)) ELSE s

RECURSIVE RStrip(_)
RStrip(s) ==
  IF s # <<>> /\ s[Len(s)] \in Whitespace
  THEN RStrip(SubSeq(s, 1, Len(s) - 1))
  ELSE s

\* str.strip()
Strip(s) == RStrip(LStrip(s))

\* str.startswith(p)
StartsWith(s, p) == Len(s) >= Len(p) /\ SubSeq(s, 1, Len(p)) = p

\* str.find(sep): the first position where sep occurs in s, 0 when it does not.
Find(s, sep) ==
  LET hits == {k \in 1..Len(s) : k + Len(sep) - 1 <= Len(s)
                                  /\ SubSeq(s, k, k + Len(sep) - 1) = sep}
  IN  IF hits = {} THEN 0 ELSE CHOOSE k \in hits : \A h \in hits : k <= h

\* str.split(sep): the pieces between the occurrences of sep, left to right.
RECURSIVE Split(_, _)
Split(s, sep) ==
  LET k == Find(s, sep)
  IN  IF k = 0 THEN <<s>>
      ELSE <<SubSeq(s, 1, k - 1)>> \o Split(SubSeq(s, k + Len(sep), Len(s)), sep)

\* The backtick character, written as an apostrophe: SANY accepts no backtick
\* inside a string.
Backtick == "'"

\* The three-backtick markdown fence.
Fence == <<Backtick, Backtick, Backtick>>

JsonWord == <<"j", "s", "o", "n">>

\* The markdown-fence stripping of extract_claims and verify_claim.
FenceStrip(raw) ==
  LET s0 == Strip(raw)
      s1 == IF StartsWith(s0, Fence)
            THEN LET part == Split(s0, Fence)[2]
                 IN  IF StartsWith(part, JsonWord)
                     THEN SubSeq(part, 5, Len(part))
                     ELSE part
            ELSE s0
  IN  Strip(s1)


\* -------------------------------------------------------------------- JSON

NoExc == ""

\* One element of the array the extraction prompt asks for: {"claim": "c1"},
\* {"claim": "c2"}, {"claim": 5}, an object without a claim key, a bare string.
ElemTokens == {"c1", "c2", "n5", "noclaim", "str"}

ElemIsObject(e) == e # "str"

ElemHasClaim(e) == e \in {"c1", "c2", "n5"}

\* The value under the element's claim key.
ElemClaim(e) == e

\* isinstance(v, str), for the values a claim takes: n5 is the number 5.
IsStr(v) == v # "n5"

EmptyDict ==
  [keys |-> {}, status |-> "", explanation |-> "", sources |-> <<>>, claim |-> ""]

\* The JSON objects the classification answers hold.
ObjTokens ==
  {"oVerified", "oInaccurate", "oFalse", "oUnsure", "oNoStatus",
   "oNoExplanation", "oNoSources", "oOwnClaim", "oEmpty"}

FullObject(st) ==
  [keys |-> {"status", "explanation", "sources"}, status |-> st,
   explanation |-> "finding", sources |-> <<"url1">>, claim |-> ""]

\* The dict json.loads builds from an object token.
ObjectOf(tok) ==
  CASE tok = "oVerified" -> FullObject("Verified")
    [] tok = "oInaccurate" -> FullObject("Inaccurate")
    [] tok = "oFalse" -> FullObject("False")
    [] tok = "oUnsure" -> FullObject("Unsure")
    [] tok = "oNoStatus" ->
         [FullObject("") EXCEPT !.keys = {"explanation", "sources"}]
    [] tok = "oNoExplanation" ->
         [FullObject("Verified") EXCEPT !.keys = {"status", "sources"},
                                        !.explanation = ""]
    [] tok = "oNoSources" ->
         [FullObject("False") EXCEPT !.keys = {"status", "explanation"},
                                     !.sources = <<>>]
    [] tok = "oOwnClaim" ->
         [FullObject("Verified") EXCEPT
            !.keys = {"status", "explanation", "sources", "claim"},
            !.claim = "reworded"]
    [] OTHER -> EmptyDict

\* json.loads: ok is FALSE for a JSONDecodeError; kind is "object" or "array".
JsonLoads(text) ==
  LET t == Strip(text)
  IN  IF Len(t) = 1 /\ t[1] \in ObjTokens
      THEN [ok |-> TRUE, kind |-> "object", obj |-> ObjectOf(t[1]), elems |-> <<>>]
      ELSE IF /\ Len(t) >= 2
              /\ t[1] = "["
              /\ t[Len(t)] = "]"
              /\ \A k \in 2..(Len(t) - 1) : t[k] \in ElemTokens
      THEN [ok |-> TRUE, kind |-> "array", obj |-> EmptyDict,
            elems |-> SubSeq(t, 2, Len(t) - 1)]
      ELSE [ok |-> FALSE, kind |-> "none", obj |-> EmptyDict, elems |-> <<>>]

\* ----------------------------------------------------------- extract_claims

\* The exception the comprehension [c['claim'] for c in claims_data] raises
\* on an array: that of the first element it cannot index.
ComprehensionExc(elems) ==
  LET bad == {k \in 1..Len(elems) :
                ~ElemIsObject(elems[k]) \/ ~ElemHasClaim(elems[k])}
  IN  IF bad = {} THEN NoExc
      ELSE LET k == CHOOSE j \in bad : \A h \in bad : j <= h
           IN  IF ElemIsObject(elems[k]) THEN "'claim'"
               ELSE "string indices must be integers"

\* A comprehension that passes over the elements it cannot index.
ExtractBodySkipping(l) ==
  IF l.raised THEN [exc |-> "Connection error.", val |-> <<>>]
  ELSE LET data == JsonLoads(FenceStrip(l.text))
       IN  IF ~data.ok THEN [exc |-> "Expecting value", val |-> <<>>]
           ELSE [exc |-> NoExc,
                 val |-> SelectSeq(data.elems,
                                   LAMBDA e : ElemIsObject(e) /\ ElemHasClaim(e))]

\* The try body of extract_claims.
ExtractBody(l) ==
  IF l.raised THEN [exc |-> "Connection error.", val |-> <<>>]
  ELSE LET data == JsonLoads(FenceStrip(l.text))
       IN  IF ~data.ok THEN [exc |-> "Expecting value", val |-> <<>>]
           ELSE IF data.kind = "object"
           THEN \* iterating a dict yields its keys, and a str has no ['claim']
                IF data.obj.keys = {} THEN [exc |-> NoExc, val |-> <<>>]
                ELSE [exc |-> "string indices must be integers", val |-> <<>>]
           ELSE IF ComprehensionExc(data.elems) # NoExc
           THEN [exc |-> ComprehensionExc(data.elems), val |-> <<>>]
           ELSE [exc |-> NoExc,
                 val |-> [k \in 1..Len(data.elems) |-> ElemClaim(data.elems[k])]]

\* extract_claims: the claims returned and the messages given to st.error.
ExtractClaims(l) ==
  LET b == ExtractBody(l)
  IN  IF b.exc # NoExc
      THEN [claims |-> <<>>, errors |-> <<"Error extracting claims: " \o b.exc>>]
      ELSE [claims |-> b.val, errors |-> <<>>]

\* ------------------------------------------------------------- verify_claim

\* The exception of the search and of building the context from its results.
SearchPhase(s) ==
  IF s.raised THEN "search failed"
  ELSE IF \E k \in 1..Len(s.results) : s.results[k] = "nourl" THEN "'url'"
  ELSE NoExc

\* result['claim'] = claim without the assignment: the parsed object as it is.
ClassifyPhaseKeepClaim(claim, l) ==
  IF l.raised THEN [exc |-> "Connection error.", val |-> EmptyDict]
  ELSE LET parsed == JsonLoads(FenceStrip(l.text))
       IN  IF ~parsed.ok THEN [exc |-> "Expecting value", val |-> EmptyDict]
           ELSE IF parsed.kind # "object"
           THEN [exc |-> "list indices must be integers", val |-> EmptyDict]
           ELSE [exc |-> NoExc, val |-> parsed.obj]

\* The classification request, the parse of its answer and the claim set on it.
ClassifyPhase(claim, l) ==
  IF l.raised THEN [exc |-> "Connection error.", val |-> EmptyDict]
  ELSE LET parsed == JsonLoads(FenceStrip(l.text))
       IN  IF ~parsed.ok THEN [exc |-> "Expecting value", val |-> EmptyDict]
           ELSE IF parsed.kind # "object"
           THEN [exc |-> "list indices must be integers", val |-> EmptyDict]
           ELSE [exc |-> NoExc,
                 val |-> [parsed.obj EXCEPT !.claim = claim,
                                            !.keys = @ \cup {"claim"}]]

\* The try body of verify_claim.
VerifyBody(claim, s, l) ==
  IF SearchPhase(s) # NoExc
  THEN [exc |-> SearchPhase(s), val |-> EmptyDict]
  ELSE ClassifyPhase(claim, l)

\* The dict the except clause of verify_claim returns.
ErrorVerdict(claim, cause) ==
  [keys |-> {"claim", "status", "explanation", "sources"}, claim |-> claim,
   status |-> "Error", explanation |-> "Could not verify: " \o cause,
   sources |-> <<>>]

\* An except clause that catches the search's failure only.
VerifyClaimNarrowExcept(claim, s, l) ==
  LET b == VerifyBody(claim, s, l)
  IN  IF b.exc # NoExc /\ SearchPhase(s) # NoExc
      THEN [exc |-> NoExc, val |-> ErrorVerdict(claim, b.exc)]
      ELSE b

\* verify_claim.
VerifyClaim(claim, s, l) ==
  LET b == VerifyBody(claim, s, l)
  IN  IF b.exc # NoExc
      THEN [exc |-> NoExc, val |-> ErrorVerdict(claim, b.exc)]
      ELSE b


\* ----------------------------------------------------- summary and display

\* The exception of the three counting sums: r['status'] of a dict without it.
SummaryExc(rs) ==
  IF \E k \in 1..Len(rs) : "status" \notin rs[k].keys THEN "'status'" ELSE NoExc

\* sum(1 for r in results if r['status'] == st)
CountStatus(rs, st) == Cardinality({k \in 1..Len(rs) : rs[k].status = st})

\* The exception of displaying one result: len() of its claim, then its
\* explanation; result.get('sources') raises nothing.
DisplayExc(r) ==
  IF "status" \notin r.keys THEN "'status'"
  ELSE IF ~IsStr(r.claim) THEN "object of type 'int' has no len()"
  ELSE IF "explanation" \notin r.keys THEN "'explanation'"
  ELSE NoExc

\* The display loop: the results shown before the first that raises, and
\* the exception.
DisplayRun(rs) ==
  LET bad == {k \in 1..Len(rs) : DisplayExc(rs[k]) # NoExc}
  IN  IF bad = {} THEN [shown |-> Len(rs), exc |-> NoExc]
      ELSE LET k == CHOOSE j \in bad : \A h \in bad : j <= h
           IN  [shown |-> k - 1, exc |-> DisplayExc(rs[k])]

\* The finally clause: the file exists after it only if unlink was skipped.
Cleanup(exists) == FALSE

\* if claims: with the test always taken.
TruthyAlways(cs) == TRUE

\* The truth value of a list.
Truthy(cs) == Len(cs) > 0

\* A progress tick that reports the index before the increment.
ProgressTickStale(k, n) == <<k, n>>

\* progress_bar.progress((i + 1) / len(claims)), as numerator and denominator.
ProgressTick(k, n) == <<k + 1, n>>

\* ------------------------------------------------- the service's answers

Wrappers == {"none", "padded", "fence", "jsonfence"}

\* A payload as the service sends it: bare, padded with whitespace, or inside
\* a markdown fence with or without the json tag.
Wrap(w, payload) ==
  CASE w = "padded" -> <<" ">> \o payload \o <<"\n">>
    [] w = "fence" -> Fence \o <<"\n">> \o payload \o <<"\n">> \o Fence
    [] w = "jsonfence" ->
         Fence \o JsonWord \o <<"\n">> \o payload \o <<"\n">> \o Fence
    [] OTHER -> payload

ExtractShapes == {"array", "truncated", "object", "emptyobject", "prose"}

\* The payload of an extraction answer of the given shape.
Render(shape, elems) ==
  CASE shape = "array" -> <<"[">> \o elems \o <<"]">>
    [] shape = "truncated" -> <<"[">> \o elems
    [] shape = "object" -> <<"oVerified">>
    [] shape = "emptyobject" -> <<"oEmpty">>
    [] OTHER -> <<"x", "[">> \o elems \o <<"]">>

\* What the service answers to the extraction request.
ExtractInputs ==
  {[raised |-> TRUE, shape |-> "none", elems |-> <<>>]}
  \cup {[raised |-> FALSE, shape |-> "array", elems |-> e] :
          e \in SeqsUpTo(ElemTokens, MaxClaims)}
  \cup {[raised |-> FALSE, shape |-> sh, elems |-> <<"c1">>] :
          sh \in ExtractShapes \ {"array"}}

\* What the search service answers: an exception, or up to max_results
\* records, one of them possibly without a url.
SearchOutcomes ==
  {[raised |-> TRUE, results |-> <<>>], [raised |-> FALSE, results |-> <<"nourl">>]}
  \cup {[raised |-> FALSE, results |-> [k \in 1..n |-> "hit"]] : n \in 0..MaxResults}

\* The payloads of the classification answers.
VerifyPayloads ==
  {<<t>> : t \in ObjTokens} \cup {<<"[", "]">>, <<"x">>, <<"oVerified", "x">>}

NoAnswer == [raised |-> FALSE, payload |-> <<>>]

VerifyInputs ==
  {[raised |-> TRUE, payload |-> <<>>]}
  \cup {[raised |-> FALSE, payload |-> q] : q \in VerifyPayloads}

\* ------------------------------------------------------------------- state

VARIABLES
  pc,            \* the statement the script is at
  outcome,       \* "running", "results", "empty", "error" or "crashed"
  tmpCreated,    \* the temporary file was created
  tmpExists,     \* the temporary file exists
  textLoaded,    \* loader.load() returned
  extractInput,  \* the service's answer to the extraction request
  claims,        \* what extract_claims returned
  errors,        \* the messages given to st.error
  i,             \* the index of the verification loop
  results,       \* the list results
  verdict,       \* what verify_claim returned for claim i, as [exc, val]
  searchOut,     \* the search service's answer for claim i
  llmOut,        \* the service's answer to the classification of claim i
  statusLine,    \* the "Verifying claim k/n" lines written
  progress,      \* the values given to the progress bar
  extractCalls,  \* calls of extract_claims
  verifyLog,     \* the loop indices verify_claim was called for
  searchLog,     \* the loop indices a search request was issued for
  classifyLog,   \* the loop indices a classification request was issued for
  counts,        \* the three metrics of the summary
  summaryShown,  \* the metrics were displayed
  shown,         \* the number of results displayed
  fenceIn,       \* fence-stripping runs: the text or payload drawn
  fenceOut       \* fence-stripping runs: what the stripping returned

vars ==
  <<pc, outcome, tmpCreated, tmpExists, textLoaded, extractInput, claims,
    errors, i, results, verdict, searchOut, llmOut, statusLine, progress,
    extractCalls, verifyLog, searchLog, classifyLog, counts, summaryShown,
    shown, fenceIn, fenceOut>>

fenceVars == <<fenceIn, fenceOut>>

loopVars == <<verdict, searchOut, llmOut, statusLine, progress, verifyLog,
              searchLog, classifyLog, i, results>>

NoCounts == [verified |-> 0, inaccurate |-> 0, false |-> 0]

NoSearch == [raised |-> FALSE, results |-> <<>>]

NoVerdict == [exc |-> NoExc, val |-> EmptyDict]

NoFence == [kind |-> "none", text |-> <<>>]

NoFenceOut == [once |-> <<>>, twice |-> <<>>, plain |-> <<>>, tagged |-> <<>>]

Init ==
  /\ pc = "upload"
  /\ outcome = "running"
  /\ tmpCreated = FALSE
  /\ tmpExists = FALSE
  /\ textLoaded = FALSE
  /\ extractInput = [raised |-> FALSE, shape |-> "none", elems |-> <<>>]
  /\ claims = <<>>
  /\ errors = <<>>
  /\ i = 0
  /\ results = <<>>
  /\ verdict = NoVerdict
  /\ searchOut = NoSearch
  /\ llmOut = NoAnswer
  /\ statusLine = <<>>
  /\ progress = <<>>
  /\ extractCalls = 0
  /\ verifyLog = <<>>
  /\ searchLog = <<>>
  /\ classifyLog = <<>>
  /\ counts = NoCounts
  /\ summaryShown = FALSE
  /\ shown = 0
  /\ fenceIn = NoFence
  /\ fenceOut = NoFenceOut


\* ----------------------------------------------------------------- actions

\* except Exception as e: st.error(...), then the finally clause.
RunFails(exc) ==
  /\ errors' = Append(errors, "Error processing PDF: " \o exc)
  /\ outcome' = "error"
  /\ tmpExists' = Cleanup(tmpExists)
  /\ pc' = "done"

\* The with block that saves the upload: the file is created, then written.
\* An exception of the write leaves the script before its try statement.
SaveUpload ==
  /\ pc = "upload"
  /\ tmpCreated' = TRUE
  /\ tmpExists' = TRUE
  /\ \E written \in BOOLEAN :
       IF written
       THEN pc' = "load" /\ outcome' = outcome
       ELSE pc' = "done" /\ outcome' = "crashed"
  /\ UNCHANGED <<textLoaded, extractInput, claims, errors, extractCalls,
                 counts, summaryShown, shown>>
  /\ UNCHANGED loopVars
  /\ UNCHANGED fenceVars

\* loader.load() and the join of the pages.
LoadPdf ==
  /\ pc = "load"
  /\ \E loaded \in BOOLEAN :
       IF loaded
       THEN /\ textLoaded' = TRUE
            /\ pc' = "extract"
            /\ UNCHANGED <<errors, outcome, tmpExists>>
       ELSE /\ textLoaded' = FALSE
            /\ RunFails("Invalid PDF")
  /\ UNCHANGED <<tmpCreated, extractInput, claims, extractCalls, counts,
                 summaryShown, shown>>
  /\ UNCHANGED loopVars
  /\ UNCHANGED fenceVars

\* claims = extract_claims(text) and the if on it: the loop is set up, or
\* the warning is shown and the finally clause runs.
Extract ==
  /\ pc = "extract"
  /\ \E g \in ExtractInputs, w \in Wrappers :
       LET r == ExtractClaims([raised |-> g.raised,
                               text |-> Wrap(w, Render(g.shape, g.elems))])
       IN  /\ extractInput' = g
           /\ extractCalls' = extractCalls + 1
           /\ claims' = r.claims
           /\ errors' = errors \o r.errors
           /\ IF Truthy(r.claims)
              THEN /\ pc' = "loop"
                   /\ progress' = <<<<0, Len(r.claims)>>>>
                   /\ UNCHANGED <<outcome, tmpExists>>
              ELSE /\ pc' = "done"
                   /\ outcome' = "empty"
                   /\ tmpExists' = Cleanup(tmpExists)
                   /\ UNCHANGED progress
  /\ UNCHANGED <<tmpCreated, textLoaded, counts, summaryShown, shown>>
  /\ UNCHANGED <<verdict, searchOut, llmOut, statusLine, verifyLog, searchLog,
                 classifyLog, i, results>>
  /\ UNCHANGED fenceVars

\* The head of an iteration: the status line is written and verify_claim
\* is entered.
VerifyStart ==
  /\ pc = "loop"
  /\ i < Len(claims)
  /\ statusLine' = Append(statusLine, <<i + 1, Len(claims)>>)
  /\ verifyLog' = Append(verifyLog, i)
  /\ verdict' = NoVerdict
  /\ searchOut' = NoSearch
  /\ llmOut' = NoAnswer
  /\ pc' = "search"
  /\ UNCHANGED <<outcome, tmpCreated, tmpExists, textLoaded, extractInput,
                 claims, errors, i, results, progress, extractCalls, searchLog,
                 classifyLog, counts, summaryShown, shown>>
  /\ UNCHANGED fenceVars

\* tavily_client.search and the context built from its results.  When these
\* raise, verify_claim returns from its except clause.
Search ==
  /\ pc = "search"
  /\ \E s \in SearchOutcomes :
       /\ searchOut' = s
       /\ searchLog' = Append(searchLog, i)
       /\ IF SearchPhase(s) # NoExc
          THEN /\ verdict' = VerifyClaim(claims[i + 1], s, NoAnswer)
               /\ pc' = "append"
          ELSE /\ verdict' = verdict
               /\ pc' = "classify"
  /\ UNCHANGED <<outcome, tmpCreated, tmpExists, textLoaded, extractInput,
                 claims, errors, i, results, llmOut, statusLine, progress,
                 extractCalls, verifyLog, classifyLog, counts, summaryShown,
                 shown>>
  /\ UNCHANGED fenceVars

\* The classification request and the rest of verify_claim.
Classify ==
  /\ pc = "classify"
  /\ \E l \in VerifyInputs, w \in Wrappers :
       /\ llmOut' = l
       /\ classifyLog' = Append(classifyLog, i)
       /\ verdict' = VerifyClaim(claims[i + 1], searchOut,
                                 [raised |-> l.raised, text |-> Wrap(w, l.payload)])
       /\ pc' = "append"
  /\ UNCHANGED <<outcome, tmpCreated, tmpExists, textLoaded, extractInput,
                 claims, errors, i, results, searchOut, statusLine, progress,
                 extractCalls, verifyLog, searchLog, counts, summaryShown,
                 shown>>
  /\ UNCHANGED fenceVars

\* results.append(verification); an exception out of verify_claim would
\* reach the except clause of the script.
AppendVerdict ==
  /\ pc = "append"
  /\ IF verdict.exc # NoExc
     THEN /\ RunFails(verdict.exc)
          /\ UNCHANGED results
     ELSE /\ results' = Append(results, verdict.val)
          /\ pc' = "progress"
          /\ UNCHANGED <<errors, outcome, tmpExists>>
  /\ UNCHANGED <<tmpCreated, textLoaded, extractInput, claims, i, verdict,
                 searchOut, llmOut, statusLine, progress, extractCalls,
                 verifyLog, searchLog, classifyLog, counts, summaryShown,
                 shown>>
  /\ UNCHANGED fenceVars

\* progress_bar.progress(...) and the step to the next claim.
Progress ==
  /\ pc = "progress"
  /\ progress' = Append(progress, ProgressTick(i, Len(claims)))
  /\ i' = i + 1
  /\ pc' = "loop"
  /\ UNCHANGED <<outcome, tmpCreated, tmpExists, textLoaded, extractInput,
                 claims, errors, results, verdict, searchOut, llmOut,
                 statusLine, extractCalls, verifyLog, searchLog, classifyLog,
                 counts, summaryShown, shown>>
  /\ UNCHANGED fenceVars

\* The loop is exhausted: the three counts are computed and shown.
Summary ==
  /\ pc = "loop"
  /\ i >= Len(claims)
  /\ IF SummaryExc(results) # NoExc
     THEN /\ RunFails(SummaryExc(results))
          /\ UNCHANGED <<counts, summaryShown>>
     ELSE /\ counts' = [verified |-> CountStatus(results, "Verified"),
                        inaccurate |-> CountStatus(results, "Inaccurate"),
                        false |-> CountStatus(results, "False")]
          /\ summaryShown' = TRUE
          /\ pc' = "display"
          /\ UNCHANGED <<errors, outcome, tmpExists>>
  /\ UNCHANGED <<tmpCreated, textLoaded, extractInput, claims, extractCalls,
                 shown>>
  /\ UNCHANGED loopVars
  /\ UNCHANGED fenceVars

\* The loop that displays each result, then the finally clause.
Display ==
  /\ pc = "display"
  /\ LET d == DisplayRun(results)
     IN  /\ shown' = d.shown
         /\ IF d.exc # NoExc
            THEN RunFails(d.exc)
            ELSE /\ outcome' = "results"
                 /\ tmpExists' = Cleanup(tmpExists)
                 /\ pc' = "done"
                 /\ UNCHANGED errors
  /\ UNCHANGED <<tmpCreated, textLoaded, extractInput, claims, extractCalls,
                 counts, summaryShown>>
  /\ UNCHANGED loopVars
  /\ UNCHANGED fenceVars

Next ==
  \/ SaveUpload
  \/ LoadPdf
  \/ Extract
  \/ VerifyStart
  \/ Search
  \/ Classify
  \/ AppendVerdict
  \/ Progress
  \/ Summary
  \/ Display

Spec == Init /\ [][Next]_vars


\* ------------------------------------------------- fence-stripping runs

\* The characters of the payload bodies drawn: a backtick, a blank, a letter.
BodyChars == {Backtick, " ", "x"}

\* The payloads drawn: a body, or the word json followed by a body.
FencePayloads ==
  LET bodies == SeqsUpTo(BodyChars, MaxLen)
  IN  bodies \cup {JsonWord \o b : b \in bodies}

\* A payload between fences with no line break after the opening fence, or
\* after an opening fence that is never closed.
WrapLoose(w, payload) ==
  CASE w = "tight" -> Fence \o payload \o Fence
    [] w = "open" -> Fence \o <<"\n">> \o payload
    [] OTHER -> Wrap(w, payload)

\* The response texts drawn: a payload, wrapped or not, inside other text.
FenceTexts ==
  {pre \o WrapLoose(w, q) \o post :
     pre \in {<<>>, <<" ">>, <<"x">>}, post \in {<<>>, <<"\n">>, <<"x">>},
     w \in Wrappers \cup {"tight", "open"}, q \in FencePayloads}

InitFence ==
  /\ pc = "fence"
  /\ outcome = "running"
  /\ tmpCreated = FALSE
  /\ tmpExists = FALSE
  /\ textLoaded = FALSE
  /\ extractInput = [raised |-> FALSE, shape |-> "none", elems |-> <<>>]
  /\ claims = <<>>
  /\ errors = <<>>
  /\ i = 0
  /\ results = <<>>
  /\ verdict = NoVerdict
  /\ searchOut = NoSearch
  /\ llmOut = NoAnswer
  /\ statusLine = <<>>
  /\ progress = <<>>
  /\ extractCalls = 0
  /\ verifyLog = <<>>
  /\ searchLog = <<>>
  /\ classifyLog = <<>>
  /\ counts = NoCounts
  /\ summaryShown = FALSE
  /\ shown = 0
  /\ fenceIn \in {[kind |-> "text", text |-> t] : t \in FenceTexts}
                 \cup {[kind |-> "payload", text |-> q] : q \in FencePayloads}
  /\ fenceOut = NoFenceOut

pipelineVars ==
  <<outcome, tmpCreated, tmpExists, textLoaded, extractInput, claims, errors,
    i, results, verdict, searchOut, llmOut, statusLine, progress,
    extractCalls, verifyLog, searchLog, classifyLog, counts, summaryShown,
    shown>>

\* The stripping applied to a response text, and again to what it returned.
StripText ==
  /\ pc = "fence"
  /\ fenceIn.kind = "text"
  /\ fenceOut' = [NoFenceOut EXCEPT
                    !.once = FenceStrip(fenceIn.text),
                    !.twice = FenceStrip(FenceStrip(fenceIn.text))]
  /\ pc' = "stripped"
  /\ UNCHANGED fenceIn
  /\ UNCHANGED pipelineVars

\* The stripping applied to a payload in a plain fence and in a json fence.
StripWrapped ==
  /\ pc = "fence"
  /\ fenceIn.kind = "payload"
  /\ fenceOut' = [NoFenceOut EXCEPT
                    !.plain = FenceStrip(Wrap("fence", fenceIn.text)),
                    !.tagged = FenceStrip(Wrap("jsonfence", fenceIn.text))]
  /\ pc' = "stripped"
  /\ UNCHANGED fenceIn
  /\ UNCHANGED pipelineVars

NextFence ==
  \/ StripText
  \/ StripWrapped

SpecFence == InitFence /\ [][NextFence]_vars


\* ------------------------------------------------------------------ claims

\* The verification loop has run to its end.
LoopFinished ==
  /\ claims # <<>>
  /\ \/ pc = "loop" /\ i >= Len(claims)
     \/ pc = "display"
     \/ pc = "done"

\* C1: once the verification loop has finished, results holds one entry per
\* extracted claim, and entry k carries claim k under its claim key,
\* whatever the two services answered or raised.
C1_OneVerdictPerClaimInOrder ==
  LoopFinished =>
    /\ Len(results) = Len(claims)
    /\ \A k \in 1..Len(claims) :
         "claim" \in results[k].keys /\ results[k].claim = claims[k]

\* C1, its case: two claims, the first answered with an Error verdict, the
\* second with an object that carries a claim field of its own.
C1_Witness ==
  /\ pc = "done"
  /\ outcome = "results"
  /\ Len(claims) = 2
  /\ results[1].status = "Error"
  /\ llmOut.payload = <<"oOwnClaim">>
  /\ results[2].claim = claims[2]

\* The classification request was issued for the claim verify_claim has
\* just returned for.
Classified == classifyLog # <<>> /\ classifyLog[Len(classifyLog)] = i

\* The classification answers that are no JSON text.
ProsePayloads == {<<"x">>, <<"oVerified", "x">>}

\* The failures C2 names: the search raised, the classification request
\* raised, or its answer is not parseable JSON.
VerifyFailed ==
  \/ searchOut.raised
  \/ Classified /\ (llmOut.raised \/ llmOut.payload \in ProsePayloads)

CouldNotVerify ==
  {"Could not verify: " \o c :
     c \in {"search failed", "Connection error.", "Expecting value"}}

ExtractFailed ==
  \/ extractInput.raised
  \/ extractInput.shape \in {"truncated", "prose"}
  \/ /\ extractInput.shape = "array"
     /\ \E k \in 1..Len(extractInput.elems) :
          extractInput.elems[k] \in {"noclaim", "str"}

\* The messages of errors that extract_claims reported.
ExtractErrors ==
  SelectSeq(errors,
            LAMBDA m : m \in {"Error extracting claims: " \o c :
                                c \in {"Connection error.", "Expecting value",
                                       "'claim'",
                                       "string indices must be integers"}})

\* C3: after extract_claims, a failed extraction has reported exactly one
\* error, returned no claim and left the run out of its error state; an
\* array whose elements all carry a claim is returned element by element,
\* in the order emitted, duplicates kept, with no error reported.
C3_ExtractFailsSoft ==
  extractCalls = 1 =>
    /\ ExtractFailed =>
         /\ claims = <<>>
         /\ Len(ExtractErrors) = 1
         /\ Len(errors) = 1
         /\ outcome = "empty"
    /\ (~ExtractFailed /\ extractInput.shape = "array") =>
         /\ Len(claims) = Len(extractInput.elems)
         /\ \A k \in 1..Len(claims) : claims[k] = ElemClaim(extractInput.elems[k])
         /\ ExtractErrors = <<>>

\* C3, its case: the array's second element has no claim field, after a
\* first element that has one.
C3_Witness ==
  /\ extractCalls = 1
  /\ extractInput.shape = "array"
  /\ extractInput.elems = <<"c1", "noclaim">>
  /\ claims = <<>>
  /\ Len(errors) = 1

\* C4: a run whose document text was loaded ends with the results or with
\* the empty result, never with the run-level error; when it ends with the
\* results, every extracted claim is among them with a status and was
\* displayed.
C4_FailuresContained ==
  (pc = "done" /\ textLoaded) =>
    /\ outcome \in {"results", "empty"}
    /\ outcome = "results" =>
         /\ Len(results) = Len(claims)
         /\ shown = Len(claims)
         /\ \A k \in 1..Len(results) : "status" \in results[k].keys

\* C5: in a run that ended with the results, the verdicts counted Verified,
\* Inaccurate, False and Error add up to the number of extracted claims.
C5_CountsSumToTotal ==
  (pc = "done" /\ outcome = "results") =>
    counts.verified + counts.inaccurate + counts.false
      + CountStatus(results, "Error") = Len(claims)

\* C6: every verdict verify_claim returns has a status among Verified,
\* Inaccurate, False and Error, an explanation and a sources field.
C6_VerdictWellFormed ==
  pc = "append" =>
    /\ {"status", "explanation", "sources"} \subseteq verdict.val.keys
    /\ verdict.val.status \in {"Verified", "Inaccurate", "False", "Error"}

\* C7: at the end of every run that created the temporary file, the file
\* no longer exists.
C7_TempFileDeleted ==
  (pc = "done" /\ tmpCreated) => ~tmpExists

\* C8: when extract_claims returned no claim, verify_claim was never called,
\* no search and no classification request was issued, there is no verdict
\* and no summary, and the run has ended in the empty-result state.
C8_ZeroClaimsShortCircuit ==
  (extractCalls = 1 /\ claims = <<>>) =>
    /\ verifyLog = <<>>
    /\ searchLog = <<>>
    /\ classifyLog = <<>>
    /\ results = <<>>
    /\ ~summaryShown
    /\ shown = 0
    /\ progress = <<>>
    /\ pc = "done"
    /\ outcome = "empty"

\* C8, its case: the service answered the extraction with an empty array.
C8_Witness ==
  /\ extractCalls = 1
  /\ ~extractInput.raised
  /\ extractInput.shape = "array"
  /\ extractInput.elems = <<>>
  /\ errors = <<>>
  /\ outcome = "empty"

\* C9: stripping a text with no fence in it returns the text less its
\* surrounding whitespace; stripping the stripped text again changes
\* nothing; a payload in a plain fence and the same payload in a json fence
\* strip to the same text, the payload (less its surrounding whitespace).
C9_FenceStripLossless ==
  pc = "stripped" =>
    /\ fenceIn.kind = "text" =>
         /\ Find(fenceIn.text, Fence) = 0 => fenceOut.once = Strip(fenceIn.text)
         /\ fenceOut.twice = fenceOut.once
    /\ fenceIn.kind = "payload" =>
         /\ fenceOut.plain = fenceOut.tagged
         /\ fenceOut.plain = Strip(fenceIn.text)

StrictlyIncreasing(log) ==
  \A j, k \in 1..Len(log) : j < k => log[j] < log[k]

\* C10: extract_claims is called once, before any verification; verify_claim
\* is called once per claim in claim order; the verification of a claim
\* starts only when the verdicts and the progress ticks of all claims before
\* it are in; no claim has more than one search or classification request;
\* the progress ticks are 1 of n, 2 of n, ... and end with n of n; the
\* summary and the results come only after all n claims.
C10_SequentialOncePerClaim ==
  /\ extractCalls <= 1
  /\ (textLoaded /\ pc # "extract") => extractCalls = 1
  /\ verifyLog # <<>> => extractCalls = 1
  /\ Len(verifyLog) <= Len(claims)
  /\ \A k \in 1..Len(verifyLog) : verifyLog[k] = k - 1
  /\ StrictlyIncreasing(searchLog)
  /\ StrictlyIncreasing(classifyLog)
  /\ \A k \in 1..Len(searchLog) : searchLog[k] < Len(verifyLog)
  /\ \A k \in 1..Len(classifyLog) :
       \E j \in 1..Len(searchLog) : searchLog[j] = classifyLog[k]
  /\ pc \in {"search", "classify", "append"} =>
       /\ Len(verifyLog) = i + 1
       /\ Len(results) = i
       /\ Len(progress) = i + 1
  /\ \A k \in 1..Len(progress) : progress[k] = <<k - 1, Len(claims)>>
  /\ (summaryShown \/ pc = "display" \/ shown > 0 \/ outcome = "results") =>
       /\ Len(verifyLog) = Len(claims)
       /\ Len(searchLog) = Len(claims)
       /\ Len(results) = Len(claims)
       /\ progress[Len(progress)] = <<Len(claims), Len(claims)>>

\* C10, its case: a run of two claims has ended with the results; the
\* search of one claim raised, so that one classification was issued.
C10_Witness ==
  /\ pc = "done"
  /\ outcome = "results"
  /\ Len(claims) = 2
  /\ Len(searchLog) = 2
  /\ Len(classifyLog) = 1
  /\ Len(progress) = 3

=============================================================================
